---- MODULE Spec2Model ----
(***************************************************************************)
(* Model of the two mail services of the repository:                       *)
(*   src/academic_notify.py  fire-and-forget academic notifications        *)
(*   src/app.py              synchronous supplier e-mails                  *)
(* Text is a sequence of string fragments (the literal runs and the        *)
(* interpolated fields of an f-string).  One request is in flight at a     *)
(* time in each behaviour; the history variables describe that request.    *)
(***************************************************************************)
EXTENDS Integers, Sequences, FiniteSets, TLC

\* ---------------------------------------------------------------- bounds
\* longest recipient list drawn for a payload
MaxList == 3
\* connections the process may hold open at once before connect() fails
MaxOpen == 1

\* ------------------------------------------------------------------ state
VARIABLES
  phase,          \* "boot", "failed" (the process did not start), "idle",
                  \* "sending" (app.py handler inside send_html_email),
                  \* "handled" (response built), "responded" (response sent)
  req,            \* the request in flight: [endpoint, data], or NoReq
  response,       \* the HTTP response of the request, or NoResponse
  tasks,          \* what the handler added to its BackgroundTasks
  background,     \* the BackgroundTasks attached to the response
  done,           \* how many of the attached tasks have run
  smtp,           \* the transport call in progress
  leaked,         \* connections left open by transport calls that returned
  outbox,         \* the messages the relay accepted for this request
  results,        \* the outcome of each transport call and log write
  calls,          \* transport invocations made for this request
  notifications,  \* the Notification Log writes made for this request
  exc,            \* the exception that left send_html_email, or NoExc
  service,        \* which of the two programs this process runs
  env,            \* the environment the process was started in
  config          \* the credentials the module holds once it is loaded

\* what a started process never changes
proc == <<service, env, config>>

vars == <<phase, req, response, tasks, background, done, smtp, leaked,
          outbox, results, calls, notifications, exc, service, env, config>>

\* ------------------------------------------------------------- constants
\* academic_notify.py: the second arguments of os.getenv
DefaultSmtpUser == "sjsvardhan@gmail.com"
DefaultSmtpPass == "hard-coded app password"

\* academic_notify.py: SENDER_EMAIL, SENDER_PASSWORD
SENDER_EMAIL == config.SMTP_USER
SENDER_PASSWORD == config.SMTP_PASS
\* app.py: settings.SMTP_USER, settings.SMTP_PASS
SMTP_USER == config.SMTP_USER
SMTP_PASS == config.SMTP_PASS

\* the timeout arguments of the two smtplib.SMTP(...) calls, in seconds:
\* academic_notify.py passes timeout=20, app.py passes none and the socket
\* module has no default timeout, so its sockets block
AsyncTimeout == {20}
SyncTimeout == {}
\* whether a wait on a silent peer ends
Bounded(timeout) == timeout # {}

\* ------------------------------------------------------------ addresses
\* the characters of the strings whose syntax the code inspects
Chars ==
  [s \in {"a@x.org", "b@x.org", "ax.org", "", "INV-1", "INV\n2"} |->
     CASE s = "a@x.org" -> <<"a", "@", "x", ".", "o", "r", "g">>
       [] s = "b@x.org" -> <<"b", "@", "x", ".", "o", "r", "g">>
       [] s = "ax.org"  -> <<"a", "x", ".", "o", "r", "g">>
       [] s = ""        -> <<>>
       [] s = "INV-1"   -> <<"I", "N", "V", "-", "1">>
       [] s = "INV\n2"  -> <<"I", "N", "V", "\n", "2">>]

\* pydantic EmailStr: one "@", a non-empty local part, a dotted domain
EmailStr(s) ==
  LET c == Chars[s]
      at == {i \in 1..Len(c) : c[i] = "@"}
  IN  /\ Cardinality(at) = 1
      /\ \A i \in at : /\ i > 1
                       /\ i < Len(c)
                       /\ \E j \in (i + 2)..(Len(c) - 1) : c[j] = "."

\* a Python dict with string keys: d.get(k) and d[k]
NoneValue == "<None>"
\* str(v) inside an f-string
Str(v) == IF v = NoneValue THEN "None" ELSE v
dict_get(d, k) == IF k \in DOMAIN d THEN d[k] ELSE NoneValue
HasKey(d, k) == k \in DOMAIN d
\* truthiness of an Optional[str]
Truthy(s) == s # NoneValue /\ s # ""

\* os.getenv(key, default): None stands for a variable that is not set
getenv(e, key, default) == IF e[key] = NoneValue THEN default ELSE e[key]

\* the environments a process is started in
Environments ==
  { [SMTP_USER |-> NoneValue, SMTP_PASS |-> NoneValue],
    [SMTP_USER |-> "mailer@x.org", SMTP_PASS |-> "secret"],
    [SMTP_USER |-> "mailer@x.org", SMTP_PASS |-> ""] }

NotLoaded == [SMTP_USER |-> NoneValue, SMTP_PASS |-> NoneValue]

SeqsUpTo(S, n) == UNION {[1..k -> S] : k \in 0..n}

\* ------------------------------------------------- payloads (request bodies)
EmailInputs == {"a@x.org", "b@x.org", "ax.org"}

\* List[Dict[str, str]] entries of FacultyAssignmentNotify.students
StudentDicts ==
  { [name |-> "Ann", email |-> "b@x.org", roll_number |-> "R1"],
    [name |-> "Bob", roll_number |-> "R2"],
    [name |-> "Cid", email |-> "", roll_number |-> "R3"],
    [name |-> "Dee", email |-> "ax.org", roll_number |-> "R4"] }

\* List[Dict[str, str]] entries of ResultReleaseNotify.student_list
ResultDicts ==
  { [email |-> "a@x.org", id |-> "S1"],
    [email |-> "ax.org", id |-> "S2"],
    [id |-> "S3"],
    [email |-> "b@x.org"] }

CourseCreationInputs ==
  [course_name : {"Algebra"}, semester : {"Fall"},
   student_emails : SeqsUpTo(EmailInputs, MaxList)]

FacultyAssignmentInputs ==
  [faculty_id : {"F1"}, faculty_email : {"a@x.org", "ax.org"},
   faculty_name : {"Noether"}, subject_name : {"Rings"},
   students : SeqsUpTo(StudentDicts, MaxList)]

StudentEnrollmentInputs ==
  [student_id : {"S1"}, student_name : {"Ann"},
   student_email : EmailInputs, subject_name : {"Rings"},
   faculty_id : {"F1"}, faculty_email : {"a@x.org", "ax.org"}]

ResultReleaseInputs ==
  [exam_name : {"Midterm"}, student_list : SeqsUpTo(ResultDicts, MaxList)]

DefaultReason == "Academic Performance / Attendance Shortage"

StudentDetentionInputs ==
  [student_id : {"S1"}, student_name : {"Ann"},
   student_email : {"a@x.org", "ax.org"},
   reason : {DefaultReason, "Fees"}]

\* credits are floats with one decimal, held in tenths (50 is 5.0)
StudentCreditShortageInputs ==
  [student_id : {"S1"}, student_name : {"Ann"},
   student_email : {"a@x.org", "ax.org"},
   current_credits : {0, 50}, required_credits : {200}]

EventInputs ==
  [event_name : {"Gala", "Expo"}, update_type : {"CANCELLED", "RESCHEDULED"},
   details : {"Rain"},
   recipient_list : SeqsUpTo({"a@x.org", "ax.org"}, MaxList)]

SupplierToStoreInputs ==
  [to_email : {"a@x.org", "ax.org"}, store_name : {"Shop"},
   supplier_name : {"Acme"}, invoice_id : {"INV-1", "INV\n2"},
   items : {<<>>, <<[item |-> "Paracetamol", qty |-> 20]>>},
   expected_delivery : {"Monday"}]

SupplierFailureInputs ==
  [to_email : {"a@x.org", "ax.org"}, store_name : {"Shop"},
   store_email : {"b@x.org", "ax.org"}, supplier_name : {"Acme"},
   invoice_id : {"INV-1", "INV\n2"}, failure_reason : {"Bounced"}]

\* ------------------------------------------------------ schema validation
CourseCreationNotify(d) ==
  \A i \in 1..Len(d.student_emails) : EmailStr(d.student_emails[i])

FacultyAssignmentNotify(d) == EmailStr(d.faculty_email)

StudentEnrollmentNotify(d) ==
  EmailStr(d.student_email) /\ EmailStr(d.faculty_email)

ResultReleaseNotify(d) == TRUE

StudentDetentionNotify(d) == EmailStr(d.student_email)

StudentCreditShortageNotify(d) == EmailStr(d.student_email)

EventNotify(d) ==
  \A i \in 1..Len(d.recipient_list) : EmailStr(d.recipient_list[i])

SupplierToStoreRequest(d) == EmailStr(d.to_email)

SupplierFailureRequest(d) ==
  EmailStr(d.to_email) /\ EmailStr(d.store_email)

\* ------------------------------------------------------------------ text
\* f"{x}" of a float held in tenths: 50 is "5.0"
FormatFloat(t) == <<ToString(t \div 10), ".", ToString(t % 10)>>

\* whether field v occurs in text t
Contains(t, v) == \E i \in 1..Len(t) : t[i] = v

\* a header value with a line feed or carriage return in it
HasLinefeed(t) ==
  \E i \in 1..Len(t) :
    /\ t[i] \in DOMAIN Chars
    /\ \E j \in 1..Len(Chars[t[i]]) : Chars[t[i]][j] \in {"\n", "\r"}

\* ----------------------------------------------------- deferred work items
\* html_body = None is the empty text: both are falsy in "if html_body:"
NoHtml == <<>>

SendTask(to_email, subject, body, html_body) ==
  [kind |-> "send", to_email |-> to_email, subject |-> subject,
   body |-> body, html_body |-> html_body]

LogTask(user_id, title, message, category) ==
  [kind |-> "log", user_id |-> user_id, title |-> title,
   message |-> message, category |-> category]

\* background_tasks.add_task(func, *args)
add_task(q, t) == Append(q, t)

Returned(q, content) == [raised |-> FALSE, tasks |-> q, content |-> content]
Raised(q, e) == [raised |-> TRUE, tasks |-> q, content |-> e]

Queued(message) == [status |-> "SUCCESS", message |-> message]

\* ---------------------------------------------- academic_notify.py handlers
RECURSIVE course_loop_nolog(_, _, _, _, _)
\* a loop that forgets the Notification Log write
course_loop_nolog(emails, i, subject, body, q) ==
  IF i > Len(emails) THEN q
  ELSE course_loop_nolog(emails, i + 1, subject, body,
         add_task(q, SendTask(emails[i], subject, body, NoHtml)))

RECURSIVE course_loop(_, _, _, _, _)
course_loop(emails, i, subject, body, q) ==
  IF i > Len(emails) THEN q
  ELSE LET q1 == add_task(q, SendTask(emails[i], subject, body, NoHtml))
           q2 == add_task(q1, LogTask("student_id_placeholder",
                                      "Course Registration Open", body,
                                      "ACADEMIC"))
       IN  course_loop(emails, i + 1, subject, body, q2)

notify_course_creation(data) ==
  LET subject == <<"New Courses Available - ", data.semester>>
      body == <<"Hello Student,\n\nNew courses for ", data.semester,
                " have been released.\nCourse: ", data.course_name,
                "\n\nPlease login to AcademixAI to register.">>
  IN  Returned(course_loop(data.student_emails, 1, subject, body, <<>>),
               Queued(<<"Course notifications queued.">>))

RECURSIVE student_lines(_, _)
\* "\n".join(f"- {s.get('name')} ({s.get('roll_number')})" for s in students)
student_lines(students, i) ==
  IF i > Len(students) THEN <<>>
  ELSE (IF i > 1 THEN <<"\n">> ELSE <<>>)
       \o <<"- ", Str(dict_get(students[i], "name")), " (",
            Str(dict_get(students[i], "roll_number")), ")">>
       \o student_lines(students, i + 1)

RECURSIVE faculty_loop_all(_, _, _, _)
\* a loop without the "if s_email:" test
faculty_loop_all(data, students, i, q) ==
  IF i > Len(students) THEN q
  ELSE faculty_loop_all(data, students, i + 1,
         add_task(q, SendTask(dict_get(students[i], "email"),
                              <<"Faculty Assigned for ", data.subject_name>>,
                              <<"Hello ", Str(dict_get(students[i], "name"))>>,
                              NoHtml)))

RECURSIVE faculty_loop(_, _, _, _)
faculty_loop(data, students, i, q) ==
  IF i > Len(students) THEN q
  ELSE LET student == students[i]
           s_email == dict_get(student, "email")
           student_subject == <<"Faculty Assigned for ", data.subject_name>>
           student_body ==
             <<"Hello ", Str(dict_get(student, "name")), ",\n\nProf. ",
               data.faculty_name,
               " has been assigned to teach your course: ",
               data.subject_name, ".\n\nRegards,\nAcademixAI Team">>
       IN  faculty_loop(data, students, i + 1,
             IF Truthy(s_email)
             THEN add_task(q, SendTask(s_email, student_subject,
                                       student_body, NoHtml))
             ELSE q)

\* a queue that mails the faculty only inside "if data.students:"
faculty_queue_nested(data, subject, body) ==
  LET q2 == IF data.students # <<>>
            THEN faculty_loop(data, data.students, 1,
                   add_task(<<>>, SendTask(data.faculty_email, subject, body,
                                           NoHtml)))
            ELSE <<>>
  IN  add_task(q2, LogTask(data.faculty_id, "New Teaching Assignment", body,
                           "FACULTY"))

\* the three add_task sites of notify_faculty_assignment
faculty_queue(data, subject, body) ==
  LET q1 == add_task(<<>>, SendTask(data.faculty_email, subject, body, NoHtml))
      q2 == IF data.students # <<>>
            THEN faculty_loop(data, data.students, 1, q1)
            ELSE q1
  IN  add_task(q2, LogTask(data.faculty_id, "New Teaching Assignment", body,
                           "FACULTY"))

notify_faculty_assignment(data) ==
  LET student_list_text ==
        IF data.students # <<>>
        THEN <<"\n\nEnrolled Students List:\n">>
             \o student_lines(data.students, 1)
        ELSE <<>>
      subject == <<"New Teaching Assignment">>
      body == <<"Hello Prof. ", data.faculty_name,
                ",\n\nYou have been assigned to teach:\nSubject: ",
                data.subject_name, "\n">>
              \o student_list_text
              \o <<"\n\nPlease check your dashboard for more details.">>
  IN  Returned(faculty_queue(data, subject, body),
               Queued(<<"Faculty and students notified.">>))

notify_student_enrollment(data) ==
  LET fac_subject == <<"New Enrollment - ", data.subject_name>>
      fac_body == <<"Hello,\n\nA student has enrolled in your subject: ",
                    data.subject_name, ".\nStudent: ", data.student_name,
                    " (", data.student_id, ")\n\nRegards,\nAcademixAI Team">>
      q1 == IF Truthy(data.faculty_email)
            THEN add_task(
                   add_task(<<>>, SendTask(data.faculty_email, fac_subject,
                                           fac_body, NoHtml)),
                   LogTask(data.faculty_id, "New Student Enrollment",
                           fac_body, "ENROLLMENT"))
            ELSE <<>>
      stu_subject == <<"Enrolled Successfully: ", data.subject_name>>
      stu_body == <<"Hello ", data.student_name,
                    ",\n\nYou have been successfully enrolled in the course: ",
                    data.subject_name,
                    " for this semester.\nYou can now access the course materials and syllabus on your dashboard.\n\nBest wishes,\nAcademixAI Team">>
      q2 == IF Truthy(data.student_email)
            THEN add_task(
                   add_task(q1, SendTask(data.student_email, stu_subject,
                                         stu_body, NoHtml)),
                   LogTask(data.student_id, "Course Enrollment Confirmation",
                           stu_body, "ENROLLMENT"))
            ELSE q1
  IN  Returned(q2, Queued(<<"Enrollment notifications queued.">>))

RECURSIVE results_loop(_, _, _, _, _)
\* student["email"] and student["id"] raise KeyError on a missing key
results_loop(list, i, subject, body, q) ==
  IF i > Len(list) THEN Returned(q, Queued(<<"Result notifications queued.">>))
  ELSE LET student == list[i]
       IN  IF ~HasKey(student, "email") THEN Raised(q, <<"KeyError: 'email'">>)
           ELSE LET q1 == add_task(q, SendTask(student["email"], subject,
                                               body, NoHtml))
                IN  IF ~HasKey(student, "id")
                    THEN Raised(q1, <<"KeyError: 'id'">>)
                    ELSE results_loop(list, i + 1, subject, body,
                           add_task(q1, LogTask(student["id"],
                                                "Results Published", body,
                                                "EXAM")))

notify_results_release(data) ==
  LET subject == <<"Results Released - ", data.exam_name>>
      body == <<"Dear Student,\n\nResults for ", data.exam_name,
                " have been published.\nPlease login to AcademixAI to view your grades.">>
  IN  results_loop(data.student_list, 1, subject, body, <<>>)

notify_student_detention(data) ==
  LET subject == <<"URGENT: Academic Status Update - DETAINED">>
      html_body == <<"<html>...Status Update...DETAINED...Dear <strong>",
                     data.student_name,
                     "</strong>,...Detention Order...Official Reason:...\"",
                     data.reason,
                     "\"...CONSEQUENCES...Administration Module...</html>">>
      plain_body ==
        <<"URGENT: Your academic status has been updated to DETAINED. Reason: ",
          data.reason,
          ". Please report to the administration cell immediately.">>
      q1 == add_task(<<>>, SendTask(data.student_email, subject, plain_body,
                                    html_body))
      q2 == add_task(q1, LogTask(data.student_id, "Status Update: DETAINED",
                                 <<"Academic status changed to DETAINED. Reason: ",
                                   data.reason>>,
                                 "ADMIN_ALERT"))
  IN  Returned(q2, Queued(<<"Detention notification queued.">>))

notify_student_credit_shortage(data) ==
  LET subject == <<"Academic Warning: Credit Shortage Detected">>
      html_body == <<"<html>...Credit Alert...Dear <strong>",
                     data.student_name,
                     "</strong>,...Current Credits:...">>
                   \o FormatFloat(data.current_credits)
                   \o <<"...Required for Promotion:...">>
                   \o FormatFloat(data.required_credits)
                   \o <<"...Required Next Steps...Academic Surveillance...</html>">>
      plain_body == <<"ACADEMIC ALERT: Credit shortage detected (">>
                    \o FormatFloat(data.current_credits) \o <<"/">>
                    \o FormatFloat(data.required_credits)
                    \o <<"). You are at risk of detention. Please check the portal immediately.">>
      q1 == add_task(<<>>, SendTask(data.student_email, subject, plain_body,
                                    html_body))
      q2 == add_task(q1, LogTask(data.student_id,
                                 "Status Warning: Credit Shortage",
                                 <<"Credit Shortage detected (">>
                                 \o FormatFloat(data.current_credits) \o <<"/">>
                                 \o FormatFloat(data.required_credits)
                                 \o <<"). Risk of detention.">>,
                                 "ACADEMIC_ALERT"))
  IN  Returned(q2, Queued(<<"Credit shortage notification queued.">>))

\* a template with one accent for every update type
accent_color_fixed(update_type) == "#6366f1"

accent_color(update_type) ==
  IF update_type = "CANCELLED" THEN "#ef4444" ELSE "#6366f1"
secondary_accent(update_type) ==
  IF update_type = "CANCELLED" THEN "#991b1b" ELSE "#4338ca"

RECURSIVE event_loop(_, _, _, _, _, _)
event_loop(emails, i, subject, plain_body, html_content, q) ==
  IF i > Len(emails) THEN q
  ELSE event_loop(emails, i + 1, subject, plain_body, html_content,
         add_task(q, SendTask(emails[i], subject, plain_body, html_content)))

notify_event_update(data) ==
  LET subject == <<"URGENT: ", data.event_name, " Update">>
      bg_gradient == <<"linear-gradient(135deg, ",
                       accent_color(data.update_type), " 0%, ",
                       secondary_accent(data.update_type), " 100%)">>
      html_content == <<"<html>...<td style=\"background: ">> \o bg_gradient
                      \o <<";...Unified Campus Protocol...<h1>",
                           data.event_name, "</h1>...Status: <span>",
                           data.update_type,
                           "</span>...registration for <strong>",
                           data.event_name,
                           "</strong>...Adjustment Log:...<p>", data.details,
                           "</p>...ACADEMIX AI...</html>">>
      plain_body == <<"URGENT: ", data.event_name, " has been ",
                      data.update_type, ".\nDetails: ", data.details,
                      "\nPlease check the portal for more info.">>
  IN  Returned(event_loop(data.recipient_list, 1, subject, plain_body,
                          html_content, <<>>),
               Queued(<<"Alerts sent for ", data.event_name, ".">>))

\* ------------------------------------------------------ the MIME messages
Part(subtype, content) == [subtype |-> subtype, content |-> content]

\* academic_notify.py: MIMEMultipart() and one attached part
build_message(to_email, subject, body, html_body) ==
  [From |-> SENDER_EMAIL, To |-> to_email, Subject |-> subject,
   subtype |-> "mixed",
   parts |-> IF html_body # NoHtml
             THEN <<Part("html", html_body)>>
             ELSE <<Part("plain", body)>>]

DefaultFallback == <<"Please view this email in an HTML-capable client.">>

\* app.py: EmailMessage, set_content then add_alternative
build_html_message(to_email, subject, html_body, plain_fallback) ==
  [From |-> <<"SynapStore <", SMTP_USER, ">">>, To |-> to_email,
   Subject |-> subject, subtype |-> "alternative",
   parts |-> <<Part("plain", IF plain_fallback # NoHtml THEN plain_fallback
                             ELSE DefaultFallback),
               Part("html", html_body)>>]

\* -------------------------------------------------------- app.py renderers
RECURSIVE items_rows(_, _)
items_rows(items, i) ==
  IF i > Len(items) THEN <<>>
  ELSE <<"<tr><td>", items[i].item, "</td><td>", ToString(items[i].qty),
         "</td></tr>">> \o items_rows(items, i + 1)

supplier_to_store_message(payload) ==
  LET subject == <<"Stock Dispatched to ", payload.store_name,
                   " | Invoice #", payload.invoice_id>>
      html_body == <<"<html>...Stock Dispatch Notification...<strong>",
                     payload.supplier_name,
                     "</strong> has dispatched stock...Invoice:</strong> ",
                     payload.invoice_id, "...Expected Delivery:</strong> ",
                     payload.expected_delivery, "...<tbody>">>
                   \o items_rows(payload.items, 1)
                   \o <<"</tbody>...</html>">>
  IN  build_html_message(payload.to_email, subject, html_body, NoHtml)

supplier_delivery_failed_message(payload, timestamp) ==
  LET subject == <<"Delivery Notification Failed | Invoice #",
                   payload.invoice_id>>
      html_body == <<"<html>...Email Delivery Failed...Supplier:</strong> ",
                     payload.supplier_name, "...Store:</strong> ",
                     payload.store_name, "...Store Email:</strong> ",
                     payload.store_email, "...Invoice:</strong> ",
                     payload.invoice_id, "...Time:</strong> ", timestamp,
                     "...Reason:</strong> ", payload.failure_reason,
                     "...</html>">>
  IN  build_html_message(payload.to_email, subject, html_body, NoHtml)

\* ------------------------------------------------------------ the state
NoReq == [endpoint |-> "none"]
NoResponse == [code |-> 0]
NoExc == [type |-> "none", text |-> <<>>]
NoMsg == [To |-> NoneValue]

\* no transport call in progress
Idle == [stage |-> "none", open |-> FALSE, msg |-> NoMsg, attempts |-> 0,
         sent |-> 0]

AcademicEndpoints ==
  {"course-creation", "faculty-assignment", "student-enrollment",
   "results-release", "student-detention", "student-credit-shortage",
   "event-update"}
SupplierEndpoints == {"supplier-to-store", "supplier-delivery-failed"}

Init ==
  /\ service \in {"academic", "supplier"}
  /\ env \in Environments
  /\ config = NotLoaded
  /\ phase = "boot"
  /\ req = NoReq
  /\ response = NoResponse
  /\ tasks = <<>>
  /\ background = <<>>
  /\ done = 0
  /\ smtp = Idle
  /\ leaked = 0
  /\ outbox = <<>>
  /\ results = <<>>
  /\ calls = 0
  /\ notifications = <<>>
  /\ exc = NoExc

\* ------------------------------------------------------- process start
\* academic_notify.py is imported: the credentials are read with their
\* defaults, and the module raises when one of them is empty
ImportAcademicNotify ==
  /\ service = "academic"
  /\ phase = "boot"
  /\ config' = [SMTP_USER |-> getenv(env, "SMTP_USER", DefaultSmtpUser),
                SMTP_PASS |-> getenv(env, "SMTP_PASS", DefaultSmtpPass)]
  /\ phase' = IF ~Truthy(config'.SMTP_USER) \/ ~Truthy(config'.SMTP_PASS)
              THEN "failed" ELSE "idle"
  /\ UNCHANGED <<req, response, tasks, background, done, smtp, leaked,
                 outbox, results, calls, notifications, exc, service, env>>

\* app.py is imported (Settings reads the environment, no defaults for the
\* credentials) and the startup hook validate_env runs
validate_env ==
  /\ service = "supplier"
  /\ phase = "boot"
  /\ config' = [SMTP_USER |-> getenv(env, "SMTP_USER", NoneValue),
                SMTP_PASS |-> getenv(env, "SMTP_PASS", NoneValue)]
  /\ phase' = IF ~Truthy(config'.SMTP_USER) THEN "failed"
              ELSE IF ~Truthy(config'.SMTP_PASS) THEN "failed"
              ELSE "idle"
  /\ UNCHANGED <<req, response, tasks, background, done, smtp, leaked,
                 outbox, results, calls, notifications, exc, service, env>>

\* ---------------------------------------------------------- HTTP responses
\* FastAPI's reply to a body that fails the pydantic model
Unprocessable == [code |-> 422, body |-> [detail |-> <<"validation error">>]]
\* the reply to an exception that no handler catches
InternalServerError ==
  [code |-> 500, body |-> [detail |-> <<"Internal Server Error">>]]
Ok(content) == [code |-> 200, body |-> content]

\* an exception of smtplib, the socket layer or the email package
Exception(type) == [type |-> type, text |-> <<type, ": ", "reply of the relay">>]
\* str(e)
str(e) == e.text

\* ------------------------------------------ academic_notify.py: the routes
\* a framework that runs whatever was enqueued, whether the handler returned
\* or raised
AttachedAlways(valid, result) == IF valid THEN result.tasks ELSE <<>>

\* the BackgroundTasks object is attached to the response of a handler that
\* returned, and dropped with a handler that raised
Attached(valid, result) ==
  IF valid /\ ~result.raised THEN result.tasks ELSE <<>>

\* @app.post(path): the pydantic model of the body and the handler of a path
request_model(endpoint, data) ==
  CASE endpoint = "course-creation" -> CourseCreationNotify(data)
    [] endpoint = "faculty-assignment" -> FacultyAssignmentNotify(data)
    [] endpoint = "student-enrollment" -> StudentEnrollmentNotify(data)
    [] endpoint = "results-release" -> ResultReleaseNotify(data)
    [] endpoint = "student-detention" -> StudentDetentionNotify(data)
    [] endpoint = "student-credit-shortage" -> StudentCreditShortageNotify(data)
    [] endpoint = "event-update" -> EventNotify(data)

endpoint_function(endpoint, data) ==
  CASE endpoint = "course-creation" -> notify_course_creation(data)
    [] endpoint = "faculty-assignment" -> notify_faculty_assignment(data)
    [] endpoint = "student-enrollment" -> notify_student_enrollment(data)
    [] endpoint = "results-release" -> notify_results_release(data)
    [] endpoint = "student-detention" -> notify_student_detention(data)
    [] endpoint = "student-credit-shortage" ->
         notify_student_credit_shortage(data)
    [] endpoint = "event-update" -> notify_event_update(data)

\* a route: the body is validated against the model, the handler runs, and
\* FastAPI answers according to its outcome
Route(endpoint, data) ==
  /\ service = "academic"
  /\ phase = "idle"
  /\ phase' = "handled"
  /\ req' = [endpoint |-> endpoint, data |-> data]
  /\ LET valid == request_model(endpoint, data)
         result == endpoint_function(endpoint, data)
     IN  /\ response' = IF ~valid THEN Unprocessable
                        ELSE IF result.raised THEN InternalServerError
                        ELSE Ok(result.content)
         /\ tasks' = IF valid THEN result.tasks ELSE <<>>
         /\ background' = Attached(valid, result)
  /\ UNCHANGED <<done, smtp, leaked, outbox, results, calls, notifications,
                 exc>>
  /\ UNCHANGED proc

NotifyCourseCreation ==
  \E data \in CourseCreationInputs :
    Route("course-creation", data)

NotifyFacultyAssignment ==
  \E data \in FacultyAssignmentInputs :
    Route("faculty-assignment", data)

NotifyStudentEnrollment ==
  \E data \in StudentEnrollmentInputs :
    Route("student-enrollment", data)

NotifyResultsRelease ==
  \E data \in ResultReleaseInputs :
    Route("results-release", data)

NotifyStudentDetention ==
  \E data \in StudentDetentionInputs :
    Route("student-detention", data)

NotifyStudentCreditShortage ==
  \E data \in StudentCreditShortageInputs :
    Route("student-credit-shortage", data)

NotifyEventUpdate ==
  \E data \in EventInputs :
    Route("event-update", data)

\* the response goes out; background work runs only after it
SendResponse ==
  /\ phase = "handled"
  /\ phase' = "responded"
  /\ UNCHANGED <<req, response, tasks, background, done, smtp, leaked, outbox,
                 results, calls, notifications, exc>>
  /\ UNCHANGED proc

\* work that starts as soon as the handler has queued it
DeferredEager(p) == p \in {"handled", "responded"}

\* when the attached background tasks may run
Deferred(p) == p = "responded"

NextTask == background[done + 1]

CanRunTask(kind) ==
  /\ Deferred(phase)
  /\ smtp.stage = "none"
  /\ done < Len(background)
  /\ NextTask.kind = kind

\* ------------------------------- academic_notify.py: save_notification_to_db
SaveNotificationToDb ==
  /\ CanRunTask("log")
  /\ notifications' = Append(notifications,
                             [user_id |-> NextTask.user_id,
                              title |-> NextTask.title,
                              message |-> NextTask.message,
                              category |-> NextTask.category,
                              is_read |-> FALSE])
  /\ results' = Append(results, [kind |-> "log", outcome |-> "None"])
  /\ done' = done + 1
  /\ UNCHANGED <<phase, req, response, tasks, background, smtp, leaked,
                 outbox, calls, exc>>
  /\ UNCHANGED proc

\* ------------------------------------- academic_notify.py: send_email_async
\* the call starts: the message is built, the connection is not yet made
SendEmailAsync_Start ==
  /\ CanRunTask("send")
  /\ calls' = calls + 1
  /\ smtp' = [Idle EXCEPT !.stage = "connect",
                          !.msg = build_message(NextTask.to_email,
                                                NextTask.subject,
                                                NextTask.body,
                                                NextTask.html_body)]
  /\ UNCHANGED <<phase, req, response, tasks, background, done, leaked,
                 outbox, results, notifications, exc>>
  /\ UNCHANGED proc

InAsyncCall(stage) ==
  /\ req.endpoint \in AcademicEndpoints
  /\ smtp.stage = stage

\* an except clause that lets the exception out of the task
async_outcome_reraise(ok) == IF ok THEN "True" ELSE "raised"

\* how the call ends: "return True", or "except Exception: return False"
async_outcome(ok) == IF ok THEN "True" ELSE "False"

\* the call is over; a connection nobody closed stays open
AsyncReturn(ok, open, attempts, sent) ==
  /\ results' = Append(results,
                       [kind |-> "send", outcome |-> async_outcome(ok),
                        To |-> smtp.msg.To, attempts |-> attempts,
                        sent |-> sent])
  /\ done' = done + 1
  /\ leaked' = IF open THEN leaked + 1 ELSE leaked
  /\ smtp' = Idle

\* an except clause that connects again instead of giving up
AsyncExceptRetry(open) ==
  /\ smtp' = [smtp EXCEPT !.stage = "connect", !.open = FALSE]
  /\ leaked' = IF open THEN leaked + 1 ELSE leaked
  /\ UNCHANGED <<done, results, outbox>>

\* the except clause: one failed step ends the call
AsyncExcept(open) ==
  /\ AsyncReturn(FALSE, open, smtp.attempts, smtp.sent)
  /\ UNCHANGED <<outbox>>

\* a wait that no timeout bounds: the call never comes back
Block ==
  smtp' = [smtp EXCEPT !.stage = "blocked"]

\* smtplib.SMTP(SMTP_SERVER, SMTP_PORT, timeout=20): the relay greets, the
\* connection fails, or the relay stays silent until the timeout raises
SendEmailAsync_Connect ==
  /\ InAsyncCall("connect")
  /\ \E reply \in {"ok", "error", "silent"} :
       IF reply = "ok" /\ leaked < MaxOpen
       THEN /\ smtp' = [smtp EXCEPT !.stage = "starttls", !.open = TRUE,
                                    !.attempts = @ + 1]
            /\ UNCHANGED <<done, leaked, outbox, results>>
       ELSE IF reply = "silent" /\ ~Bounded(AsyncTimeout)
       THEN /\ Block
            /\ UNCHANGED <<done, leaked, outbox, results>>
       ELSE /\ AsyncReturn(FALSE, FALSE, smtp.attempts + 1, 0)
            /\ UNCHANGED <<outbox>>
  /\ UNCHANGED <<phase, req, response, tasks, background, calls,
                 notifications, exc>>
  /\ UNCHANGED proc

\* a step of the session: the relay accepts it, refuses it (the connection
\* stays up), drops the connection (smtplib closes the socket) or stays
\* silent (the read times out: smtplib closes the socket and raises)
AsyncStep(stage, next) ==
  /\ InAsyncCall(stage)
  /\ \E reply \in {"ok", "refused", "disconnected", "silent"} :
       IF reply = "ok"
       THEN /\ smtp' = [smtp EXCEPT !.stage = next]
            /\ UNCHANGED <<done, leaked, outbox, results>>
       ELSE IF reply = "silent" /\ ~Bounded(AsyncTimeout)
       THEN /\ Block
            /\ UNCHANGED <<done, leaked, outbox, results>>
       ELSE AsyncExcept(reply = "refused")
  /\ UNCHANGED <<phase, req, response, tasks, background, calls,
                 notifications, exc>>
  /\ UNCHANGED proc

\* server.starttls()
SendEmailAsync_StartTls == AsyncStep("starttls", "login")

\* server.login(SENDER_EMAIL, SENDER_PASSWORD)
SendEmailAsync_Login == AsyncStep("login", "send_message")

\* server.send_message(msg)
SendEmailAsync_SendMessage ==
  /\ InAsyncCall("send_message")
  /\ \E reply \in {"ok", "refused", "disconnected", "silent"} :
       IF reply = "ok"
       THEN /\ outbox' = Append(outbox, smtp.msg)
            /\ smtp' = [smtp EXCEPT !.stage = "quit", !.sent = @ + 1]
            /\ UNCHANGED <<done, leaked, results>>
       ELSE IF reply = "silent" /\ ~Bounded(AsyncTimeout)
       THEN /\ Block
            /\ UNCHANGED <<done, leaked, outbox, results>>
       ELSE AsyncExcept(reply = "refused")
  /\ UNCHANGED <<phase, req, response, tasks, background, calls,
                 notifications, exc>>
  /\ UNCHANGED proc

\* server.quit(): QUIT, then close(); a dropped connection raises
SendEmailAsync_Quit ==
  /\ InAsyncCall("quit")
  /\ \E reply \in {"ok", "disconnected", "silent"} :
       IF reply = "ok"
       THEN /\ AsyncReturn(TRUE, FALSE, smtp.attempts, smtp.sent)
            /\ UNCHANGED <<outbox>>
       ELSE IF reply = "silent" /\ ~Bounded(AsyncTimeout)
       THEN /\ Block
            /\ UNCHANGED <<done, leaked, outbox, results>>
       ELSE AsyncExcept(FALSE)
  /\ UNCHANGED <<phase, req, response, tasks, background, calls,
                 notifications, exc>>
  /\ UNCHANGED proc

\* the socket of a connection nobody closed is closed when it is collected
Finalize ==
  /\ leaked > 0
  /\ leaked' = leaked - 1
  /\ UNCHANGED <<phase, req, response, tasks, background, done, smtp, outbox,
                 results, calls, notifications, exc>>
  /\ UNCHANGED proc

\* ------------------------------------------------------- app.py: the routes
\* a handler that answers success whatever send_html_email did
supplier_response_swallow(e) == Ok([status |-> "success"])

\* try: send_html_email(...); return {"status": "success"}
\* except Exception as e: raise HTTPException(status_code=500, detail=str(e))
supplier_response(e) ==
  IF e = NoExc THEN Ok([status |-> "success"])
  ELSE [code |-> 500, body |-> [detail |-> str(e)]]

\* validation, then the handler up to the connection of send_html_email:
\* the message is built, and a header value with a line feed raises
\* @app.post(path): the pydantic model of the body of a path
supplier_request_model(endpoint, data) ==
  CASE endpoint = "supplier-to-store" -> SupplierToStoreRequest(data)
    [] endpoint = "supplier-delivery-failed" -> SupplierFailureRequest(data)

\* the message the handler of a path hands to send_html_email
supplier_message(endpoint, data, timestamp) ==
  CASE endpoint = "supplier-to-store" -> supplier_to_store_message(data)
    [] endpoint = "supplier-delivery-failed" ->
         supplier_delivery_failed_message(data, timestamp)

SupplierRoute(endpoint, data, timestamp) ==
  /\ service = "supplier"
  /\ phase = "idle"
  /\ req' = [endpoint |-> endpoint, data |-> data]
  /\ LET valid == supplier_request_model(endpoint, data)
         msg == supplier_message(endpoint, data, timestamp)
     IN  IF ~valid
         THEN /\ response' = Unprocessable
              /\ phase' = "handled"
              /\ UNCHANGED <<calls, smtp, exc, results>>
         ELSE /\ calls' = calls + 1
              /\ IF HasLinefeed(msg.Subject)
                 THEN /\ exc' = Exception("ValueError")
                      /\ response' = supplier_response(exc')
                      /\ phase' = "handled"
                      /\ results' = Append(results,
                                           [kind |-> "send",
                                            outcome |-> "raised",
                                            To |-> msg.To, attempts |-> 0,
                                            sent |-> 0])
                      /\ UNCHANGED <<smtp>>
                 ELSE /\ smtp' = [Idle EXCEPT !.stage = "connect",
                                              !.msg = msg]
                      /\ phase' = "sending"
                      /\ UNCHANGED <<response, exc, results>>
  /\ UNCHANGED <<tasks, background, done, leaked, outbox, notifications>>
  /\ UNCHANGED proc

\* datetime.utcnow() formatted: some moment
Timestamps == {"04 Nov 2026, 12:00 UTC"}

\* this handler reads no clock
SupplierToStoreownerEmail ==
  \E payload \in SupplierToStoreInputs :
    SupplierRoute("supplier-to-store", payload, NoneValue)

SupplierDeliveryFailedEmail ==
  \E payload \in SupplierFailureInputs, timestamp \in Timestamps :
    SupplierRoute("supplier-delivery-failed", payload, timestamp)

\* ------------------------------------------------- app.py: send_html_email
InSyncCall(stage) ==
  /\ phase = "sending"
  /\ smtp.stage = stage

\* send_html_email returns True or re-raises e; the handler answers.  The
\* "with" block has closed the connection on every way out
SyncReturn(e, attempts, sent) ==
  /\ exc' = e
  /\ response' = supplier_response(e)
  /\ phase' = "handled"
  /\ results' = Append(results,
                       [kind |-> "send",
                        outcome |-> IF e = NoExc THEN "True" ELSE "raised",
                        To |-> smtp.msg.To, attempts |-> attempts,
                        sent |-> sent])
  /\ smtp' = Idle

\* smtplib.SMTP(settings.SMTP_HOST, settings.SMTP_PORT)
SendHtmlEmail_Connect ==
  /\ InSyncCall("connect")
  /\ \E reply \in {"ok", "error", "silent"} :
       IF reply = "ok" /\ leaked < MaxOpen
       THEN /\ smtp' = [smtp EXCEPT !.stage = "ehlo", !.open = TRUE,
                                    !.attempts = @ + 1]
            /\ UNCHANGED <<phase, response, results, exc>>
       ELSE IF reply = "silent" /\ ~Bounded(SyncTimeout)
       THEN /\ Block
            /\ UNCHANGED <<phase, response, results, exc>>
       ELSE SyncReturn(Exception("SMTPConnectError"), smtp.attempts + 1, 0)
  /\ UNCHANGED <<req, tasks, background, done, leaked, outbox, calls,
                 notifications>>
  /\ UNCHANGED proc

\* an exception inside the "with" block.  A read that times out is a dropped
\* connection to smtplib.  After a refusal the connection is still up: __exit__ sends QUIT, and a QUIT the relay refuses raises in
\* place of the first exception
SyncExcept(reply, quit, error) ==
  SyncReturn(IF reply \in {"disconnected", "silent"}
               THEN Exception("SMTPServerDisconnected")
             ELSE IF quit = "refused"
               THEN Exception("SMTPResponseException")
             ELSE Exception(error),
             smtp.attempts, smtp.sent)

\* a step inside the "with" block
SyncStep(stage, next, error) ==
  /\ InSyncCall(stage)
  /\ \E reply \in {"ok", "refused", "disconnected", "silent"},
        quit \in {"ok", "refused"} :
       IF reply = "ok"
       THEN /\ smtp' = [smtp EXCEPT !.stage = next]
            /\ UNCHANGED <<phase, response, results, exc>>
       ELSE IF reply = "silent" /\ ~Bounded(SyncTimeout)
       THEN /\ Block
            /\ UNCHANGED <<phase, response, results, exc>>
       ELSE SyncExcept(reply, quit, error)
  /\ UNCHANGED <<req, tasks, background, done, leaked, outbox, calls,
                 notifications>>
  /\ UNCHANGED proc

\* server.ehlo()
SendHtmlEmail_Ehlo == SyncStep("ehlo", "starttls", "SMTPHeloError")

\* server.starttls(context=context)
SendHtmlEmail_StartTls == SyncStep("starttls", "login", "SMTPNotSupportedError")

\* server.login(settings.SMTP_USER, settings.SMTP_PASS)
SendHtmlEmail_Login ==
  SyncStep("login", "send_message", "SMTPAuthenticationError")

\* server.send_message(msg)
SendHtmlEmail_SendMessage ==
  /\ InSyncCall("send_message")
  /\ \E reply \in {"ok", "refused", "disconnected", "silent"},
        quit \in {"ok", "refused"} :
       IF reply = "ok"
       THEN /\ outbox' = Append(outbox, smtp.msg)
            /\ smtp' = [smtp EXCEPT !.stage = "exit", !.sent = @ + 1]
            /\ UNCHANGED <<phase, response, results, exc>>
       ELSE IF reply = "silent" /\ ~Bounded(SyncTimeout)
       THEN /\ Block
            /\ UNCHANGED <<phase, response, results, exc, outbox>>
       ELSE /\ SyncExcept(reply, quit, "SMTPDataError")
            /\ UNCHANGED <<outbox>>
  /\ UNCHANGED <<req, tasks, background, done, leaked, calls, notifications>>
  /\ UNCHANGED proc

\* the end of the "with" block: __exit__ sends QUIT and closes; a QUIT the
\* relay refuses raises, a dropped connection is passed over
SendHtmlEmail_Exit ==
  /\ InSyncCall("exit")
  /\ \E reply \in {"ok", "refused", "disconnected", "silent"} :
       IF reply = "silent" /\ ~Bounded(SyncTimeout)
       THEN /\ Block
            /\ UNCHANGED <<phase, response, results, exc>>
       ELSE SyncReturn(IF reply = "refused"
                       THEN Exception("SMTPResponseException") ELSE NoExc,
                       smtp.attempts, smtp.sent)
  /\ UNCHANGED <<req, tasks, background, done, leaked, outbox, calls,
                 notifications>>
  /\ UNCHANGED proc

\* the request is over: the next one starts from a clean slate, except for
\* the connections still open
Complete ==
  /\ phase = "responded"
  /\ smtp.stage = "none"
  /\ done = Len(background)
  /\ phase' = "idle"
  /\ req' = NoReq
  /\ response' = NoResponse
  /\ tasks' = <<>>
  /\ background' = <<>>
  /\ done' = 0
  /\ outbox' = <<>>
  /\ results' = <<>>
  /\ calls' = 0
  /\ notifications' = <<>>
  /\ exc' = NoExc
  /\ UNCHANGED <<smtp, leaked>>
  /\ UNCHANGED proc

Next ==
  \/ ImportAcademicNotify
  \/ validate_env
  \/ NotifyCourseCreation
  \/ NotifyFacultyAssignment
  \/ NotifyStudentEnrollment
  \/ NotifyResultsRelease
  \/ NotifyStudentDetention
  \/ NotifyStudentCreditShortage
  \/ NotifyEventUpdate
  \/ SendResponse
  \/ SaveNotificationToDb
  \/ SendEmailAsync_Start
  \/ SendEmailAsync_Connect
  \/ SendEmailAsync_StartTls
  \/ SendEmailAsync_Login
  \/ SendEmailAsync_SendMessage
  \/ SendEmailAsync_Quit
  \/ Finalize
  \/ SupplierToStoreownerEmail
  \/ SupplierDeliveryFailedEmail
  \/ SendHtmlEmail_Connect
  \/ SendHtmlEmail_Ehlo
  \/ SendHtmlEmail_StartTls
  \/ SendHtmlEmail_Login
  \/ SendHtmlEmail_SendMessage
  \/ SendHtmlEmail_Exit
  \/ Complete

Spec == Init /\ [][Next]_vars

TypeOK ==
  /\ phase \in {"boot", "failed", "idle", "sending", "handled", "responded"}
  /\ service \in {"academic", "supplier"}
  /\ env \in Environments
  /\ req.endpoint \in AcademicEndpoints \cup SupplierEndpoints \cup {"none"}
  /\ response.code \in {0, 200, 422, 500}
  /\ done \in 0..Len(background)
  /\ leaked \in 0..MaxOpen
  /\ calls \in Nat

\* ------------------------------------------------------- claims: helpers
IsAcademic == req.endpoint \in AcademicEndpoints
IsSupplier == req.endpoint \in SupplierEndpoints
\* the handler ran: the request is in flight and passed schema validation
Handled == response.code \notin {0, 422}

SendTasks(q) == SelectSeq(q, LAMBDA t : t.kind = "send")
LogTasks(q) == SelectSeq(q, LAMBDA t : t.kind = "log")
SendResults == SelectSeq(results, LAMBDA r : r.kind = "send")

\* ----------------------------------------------------------------- C1

\* C1: on the supplier endpoints a request that passes validation makes
\* exactly one transport call, no response exists while that call runs, and
\* the response is {status: success} when the call returned and a 500 whose
\* detail is the text of the exception when it raised
SyncErrorPropagation ==
  IsSupplier =>
    /\ phase = "sending" => response = NoResponse /\ calls = 1
    /\ Handled =>
         /\ calls = 1
         /\ smtp.stage = "none"
         /\ Len(results) = 1
         /\ results[1].attempts <= 1
         /\ results[1].outcome = "True" =>
              /\ exc = NoExc
              /\ response = Ok([status |-> "success"])
         /\ results[1].outcome # "True" =>
              /\ exc # NoExc
              /\ response.code = 500
              /\ response.body.detail = str(exc)

SyncAuthFailureAnswered ==
  /\ IsSupplier
  /\ phase = "responded"
  /\ exc.type = "SMTPAuthenticationError"
  /\ response.code = 500
  /\ outbox = <<>>

\* ----------------------------------------------------------------- C2
\* C2: on the academic endpoints the response of a request whose work was
\* queued is the success response whatever the sends did, and no deferred
\* task ends by raising
FireAndForgetMasksFailure ==
  IsAcademic /\ background # <<>> =>
    /\ response.code = 200
    /\ response.body.status = "SUCCESS"
    /\ \A i \in 1..Len(results) : results[i].outcome \in {"True", "False", "None"}

MixedOutcomesAnswered ==
  /\ IsAcademic
  /\ response.code = 200
  /\ \E i, j \in 1..Len(results) :
       /\ results[i].kind = "send" /\ results[i].outcome = "False"
       /\ results[j].kind = "send" /\ results[j].outcome = "True"

\* ----------------------------------------------------------------- C3
\* C3: every academic request that passes schema validation is answered
\* with the success response
ValidPayloadQueued == IsAcademic /\ Handled => response.code = 200

\* ----------------------------------------------------------------- C4
Range(q) == {q[i] : i \in 1..Len(q)}
EmailValues(list) ==
  {list[i]["email"] : i \in {k \in 1..Len(list) : HasKey(list[k], "email")}}

\* the recipient address fields of the payload
RecipientAddresses ==
  CASE req.endpoint = "course-creation" -> Range(req.data.student_emails)
    [] req.endpoint = "faculty-assignment" ->
         {req.data.faculty_email} \cup EmailValues(req.data.students)
    [] req.endpoint = "student-enrollment" ->
         {req.data.student_email, req.data.faculty_email}
    [] req.endpoint = "results-release" -> EmailValues(req.data.student_list)
    [] req.endpoint \in {"student-detention", "student-credit-shortage"} ->
         {req.data.student_email}
    [] req.endpoint = "event-update" -> Range(req.data.recipient_list)
    [] req.endpoint \in SupplierEndpoints -> {req.data.to_email}
    [] OTHER -> {}

\* C4: a request with a syntactically invalid recipient address is rejected
\* with a client error, and nothing is queued or sent for it
InvalidAddressRejected ==
  (\E a \in RecipientAddresses : ~EmailStr(a)) =>
    /\ response.code = 422
    /\ tasks = <<>>
    /\ calls = 0

\* ----------------------------------------------------------------- C5
BatchEndpoints ==
  {"course-creation", "faculty-assignment", "results-release", "event-update"}

RecipientList ==
  CASE req.endpoint = "course-creation" -> req.data.student_emails
    [] req.endpoint = "faculty-assignment" -> req.data.students
    [] req.endpoint = "results-release" -> req.data.student_list
    [] req.endpoint = "event-update" -> req.data.recipient_list

EmptyBatch ==
  /\ req.endpoint \in BatchEndpoints
  /\ RecipientList = <<>>
  /\ Handled

\* C5 as stated: an empty recipient list on a batch endpoint gives the
\* success response, no queued send and no transport invocation
EmptyListNoTransport ==
  EmptyBatch =>
    /\ response.code = 200
    /\ SendTasks(tasks) = <<>>
    /\ calls = 0

\* C5 as amended: so it is on course-creation, results-release and
\* event-update; on faculty-assignment an empty students list gives the
\* success response and exactly one queued send, to the faculty address
EmptyListSendsOnlyToFaculty ==
  EmptyBatch =>
    /\ response.code = 200
    /\ IF req.endpoint = "faculty-assignment"
       THEN /\ Len(SendTasks(tasks)) = 1
            /\ SendTasks(tasks)[1].to_email = req.data.faculty_email
            /\ calls <= 1
            /\ \A i \in 1..Len(outbox) : outbox[i].To = req.data.faculty_email
       ELSE /\ tasks = <<>>
            /\ calls = 0
            /\ outbox = <<>>

EmptyStudentsFacultyMailed ==
  /\ req.endpoint = "faculty-assignment"
  /\ req.data.students = <<>>
  /\ phase = "responded"
  /\ done = Len(background)
  /\ calls = 1

\* ----------------------------------------------------------------- C6
\* C6: on the academic endpoints no transport call and no log write of a
\* request starts before the response of that request has been sent
DeferredAfterResponse ==
  IsAcademic /\ (calls > 0 \/ smtp.stage # "none" \/ notifications # <<>>
                 \/ results # <<>>)
    => phase = "responded"

WorkRanAfterResponse ==
  /\ IsAcademic
  /\ phase = "responded"
  /\ calls > 0
  /\ notifications # <<>>

\* ----------------------------------------------------------------- C7
RECURSIVE SumSent(_)
SumSent(rs) == IF rs = <<>> THEN 0 ELSE Head(rs).sent + SumSent(Tail(rs))

\* C7: a transport call connects at most once and transmits at most one
\* message, to the one address it was called with: one message when it
\* succeeds, and no call is made twice, so the relay gets at most one
\* message for each queued or synchronous send
AtMostOneMessagePerCall ==
  /\ smtp.attempts <= 1
  /\ smtp.sent <= 1
  /\ \A i \in 1..Len(SendResults) :
       /\ SendResults[i].attempts <= 1
       /\ SendResults[i].sent <= 1
       /\ SendResults[i].outcome = "True" => SendResults[i].sent = 1
       /\ SendResults[i].attempts = 0 => SendResults[i].sent = 0
  /\ Len(outbox) = SumSent(SendResults) + smtp.sent
  /\ Len(outbox) <= calls
  /\ calls = Len(SendResults) + (IF smtp.stage # "none" THEN 1 ELSE 0)
  /\ IsAcademic => /\ calls <= Len(SendTasks(background))
                   /\ \A i \in 1..Len(results) :
                        results[i].kind = "send"
                          => results[i].To = background[i].to_email
  /\ IsSupplier => /\ calls <= 1
                   /\ \A i \in 1..Len(outbox) : outbox[i].To = req.data.to_email
  /\ \A i \in 1..Len(outbox) :
       outbox[i].To \in {SendResults[k].To : k \in 1..Len(SendResults)}
                        \cup {smtp.msg.To}

FailedThenSentOnce ==
  /\ calls = 2
  /\ Len(outbox) = 1
  /\ Len(SendResults) = 2
  /\ SendResults[1].outcome = "False" /\ SendResults[1].sent = 0
  /\ SendResults[2].outcome = "True" /\ SendResults[2].sent = 1

\* ----------------------------------------------------------------- C8
\* C8: whenever no transport call is in progress, no connection is open
ConnectionsClosedAfterCall == smtp.stage = "none" => leaked = 0 /\ ~smtp.open

\* ----------------------------------------------------------------- C9
HasPart(m, subtype) == \E p \in 1..Len(m.parts) : m.parts[p].subtype = subtype

\* C9: every message handed to the relay has a plain-text part, and one
\* with an HTML part is a multipart alternative of the two
PlainPartAlways ==
  \A i \in 1..Len(outbox) :
    /\ HasPart(outbox[i], "plain")
    /\ HasPart(outbox[i], "html") => outbox[i].subtype = "alternative"

\* ----------------------------------------------------------------- C10
RECURSIVE TruthyEmails(_)
\* the addresses of the entries that have one
TruthyEmails(list) ==
  IF list = <<>> THEN <<>>
  ELSE (IF Truthy(dict_get(Head(list), "email"))
        THEN <<Head(list)["email"]>> ELSE <<>>)
       \o TruthyEmails(Tail(list))

\* the recipients of an academic request, in the order of the payload
Recipients ==
  CASE req.endpoint = "course-creation" -> req.data.student_emails
    [] req.endpoint = "faculty-assignment" ->
         <<req.data.faculty_email>> \o TruthyEmails(req.data.students)
    [] req.endpoint = "student-enrollment" ->
         <<req.data.faculty_email, req.data.student_email>>
    [] req.endpoint = "results-release" ->
         [i \in 1..Len(req.data.student_list) |->
            req.data.student_list[i]["email"]]
    [] req.endpoint \in {"student-detention", "student-credit-shortage"} ->
         <<req.data.student_email>>
    [] req.endpoint = "event-update" -> req.data.recipient_list

QueuedNormally == IsAcademic /\ response.code = 200

CredentialsAbsent == env.SMTP_USER = NoneValue \/ env.SMTP_PASS = NoneValue

\* C11: in both services a process started without the sender username or
\* password in its environment never starts: it takes no request and makes
\* no transport call
AbsentCredentialsNeverStart ==
  CredentialsAbsent =>
    /\ phase \in {"boot", "failed"}
    /\ req = NoReq
    /\ calls = 0

\* ---------------------------------------------------------------- C12
\* C12: in both services no transport attempt waits without a bound: a call
\* against a relay that stays silent comes back, it never blocks forever
NoAttemptBlocksForever == smtp.stage # "blocked"

\* ---------------------------------------------------------------- C13
\* an event-update request whose alerts were queued
EventQueued ==
  /\ req.endpoint = "event-update"
  /\ phase = "handled"
  /\ response.code = 200

\* the accent of a rendered HTML body: the first colour of its gradient
AccentOf(html) ==
  html[1 + CHOOSE i \in 1..Len(html) : html[i] = "linear-gradient(135deg, "]

\* the message rendered for another event, as its first recipient gets it
RenderedFor(data) == notify_event_update(data).tasks[1]

\* the events that render at least one message
RenderedEvents ==
  {d \in EventInputs : EventNotify(d) /\ d.recipient_list # <<>>}

\* words that tell the reader of a subject that the event is cancelled
CancelledWording == {"CANCELLED", "Cancelled", "cancelled", "CANCELED"}

\* the accent of every message of this request is the accent of every event
\* of the same update type and differs, for a CANCELLED event, from the
\* accent of every RESCHEDULED event
AccentByUpdateType ==
  \A i \in 1..Len(tasks), other \in RenderedEvents :
    LET mine == AccentOf(tasks[i].html_body)
        theirs == AccentOf(RenderedFor(other).html_body)
    IN  /\ other.update_type = req.data.update_type => theirs = mine
        /\ req.data.update_type = "CANCELLED"
             /\ other.update_type = "RESCHEDULED" => theirs # mine

\* C13 as stated: for an event-update the subject of a CANCELLED event
\* carries cancellation wording, its accent differs from the accent of a
\* RESCHEDULED event, and events of the same update type get the same accent
\* whatever their other fields
EventTemplateByUpdateType ==
  EventQueued =>
    /\ \A i \in 1..Len(tasks) :
         req.data.update_type = "CANCELLED" =>
           \E w \in CancelledWording : Contains(tasks[i].subject, w)
    /\ AccentByUpdateType

\* C13 as amended: the subject is "URGENT: <event_name> Update" whatever the
\* update type; the update type is carried verbatim by the plain body and by
\* the HTML body; the accent of a CANCELLED event differs from the accent of
\* a RESCHEDULED event, and events of the same update type get the same
\* accent whatever their other fields
EventAccentByUpdateType ==
  EventQueued =>
    /\ \A i \in 1..Len(tasks) :
         /\ tasks[i].subject = <<"URGENT: ", req.data.event_name, " Update">>
         /\ Contains(tasks[i].body, req.data.update_type)
         /\ Contains(tasks[i].html_body, req.data.update_type)
    /\ AccentByUpdateType

CancelledEventRendered ==
  /\ EventQueued
  /\ req.data.update_type = "CANCELLED"
  /\ req.data.event_name = "Expo"
  /\ Len(tasks) = 2
  /\ AccentOf(tasks[2].html_body) = "#ef4444"

\* ---------------------------------------------------------------- C14
\* whether the fragments of u occur in t, in a row
ContainsText(t, u) ==
  \E i \in 0..(Len(t) - Len(u)) : SubSeq(t, i + 1, i + Len(u)) = u

\* the data fields of the event in flight, as they print: the names, the
\* identifiers, the reason, the credit counts (addresses and recipient lists
\* are routing, not data)
DataFields ==
  LET d == req.data
  IN  CASE req.endpoint = "course-creation" ->
             {<<d.course_name>>, <<d.semester>>}
        [] req.endpoint = "faculty-assignment" ->
             {<<d.faculty_id>>, <<d.faculty_name>>, <<d.subject_name>>}
        [] req.endpoint = "student-enrollment" ->
             {<<d.student_id>>, <<d.student_name>>, <<d.subject_name>>,
              <<d.faculty_id>>}
        [] req.endpoint = "results-release" -> {<<d.exam_name>>}
        [] req.endpoint = "student-detention" ->
             {<<d.student_id>>, <<d.student_name>>, <<d.reason>>}
        [] req.endpoint = "student-credit-shortage" ->
             {<<d.student_id>>, <<d.student_name>>,
              FormatFloat(d.current_credits), FormatFloat(d.required_credits)}
        [] req.endpoint = "event-update" ->
             {<<d.event_name>>, <<d.update_type>>, <<d.details>>}

\* C14: the plain body of every message rendered for a valid event contains
\* every data field of the event
PlainBodyCarriesEveryField ==
  QueuedNormally =>
    \A i \in 1..Len(tasks) :
      tasks[i].kind = "send" =>
        \A f \in DataFields : ContainsText(tasks[i].body, f)

\* ---------------------------------------------------------------- C15
\* the response is out and nothing of the request is left to run
RequestOver ==
  /\ IsAcademic
  /\ phase = "responded"
  /\ smtp.stage = "none"
  /\ done = Len(background)

\* the tasks the handler enqueued were each run once, in the order enqueued
RanInOrder(q) ==
  /\ Len(results) = Len(q)
  /\ calls = Len(SendTasks(q))
  /\ \A i \in 1..Len(q) :
       /\ results[i].kind = q[i].kind
       /\ q[i].kind = "send" =>
            /\ results[i].To = q[i].to_email
            /\ results[i].attempts = 1

\* C15: on the academic endpoints, by the time the request is over every
\* task its handler enqueued has been run exactly once, one at a time in
\* the order it was enqueued, whatever the sends before it did
EveryEnqueuedTaskRan == RequestOver => RanInOrder(tasks)

\* ---------------------------------------------------------------- C16
\* C16: an academic request whose handler raised (answered with a 500) runs
\* none of the tasks the handler had enqueued before it raised: no
\* transport call, no message, no log write
NoPartialBatchOnError ==
  IsAcademic /\ response.code = 500 =>
    /\ background = <<>>
    /\ smtp.stage = "none"
    /\ calls = 0
    /\ results = <<>>
    /\ outbox = <<>>
    /\ notifications = <<>>

RaisedAfterEnqueuing ==
  /\ req.endpoint = "results-release"
  /\ response.code = 500
  /\ phase = "responded"
  /\ Len(req.data.student_list) >= 2
  /\ Len(SendTasks(tasks)) >= 1
  /\ Len(LogTasks(tasks)) >= 1

\* ---------------------------------------------------------------- C17
\* the entries of a students list that have a non-empty "email" value
WithEmail(students) ==
  {i \in 1..Len(students) : Truthy(dict_get(students[i], "email"))}

\* C17: a faculty-assignment request that passes validation enqueues one
\* send to the faculty address, first, then one send for each student entry
\* with a non-empty "email" value and none for the other entries, and one
\* Notification Log write, for the faculty id
FacultyAssignmentSendCount ==
  req.endpoint = "faculty-assignment" /\ Handled =>
    LET sends == SendTasks(tasks)
        logs == LogTasks(tasks)
        students == req.data.students
    IN  /\ response.code = 200
        /\ Len(sends) = 1 + Cardinality(WithEmail(students))
        /\ sends[1].to_email = req.data.faculty_email
        /\ \A i \in WithEmail(students) :
             \E j \in 2..Len(sends) :
               sends[j].to_email = students[i]["email"]
        /\ \A j \in 2..Len(sends) : Truthy(sends[j].to_email)
        /\ Len(logs) = 1
        /\ logs[1].user_id = req.data.faculty_id
        /\ background = tasks

MixedStudentsQueued ==
  /\ req.endpoint = "faculty-assignment"
  /\ phase = "handled"
  /\ response.code = 200
  /\ Len(req.data.students) = 3
  /\ \E i, j, k \in 1..3 :
       /\ ~HasKey(req.data.students[i], "email")
       /\ dict_get(req.data.students[j], "email") = ""
       /\ Truthy(dict_get(req.data.students[k], "email"))
  /\ Len(SendTasks(tasks)) = 2
  /\ Len(LogTasks(tasks)) = 1

====
